---- MODULE Spec2Model ----
(***************************************************************************)
(* Model of the event-coordination and approval state machine of ai-tui    *)
(* (src/src/main.rs): AppState, AppState::add_change, the producers set up *)
(* in main and the coordinator loop run_app.                               *)
(*                                                                         *)
(* Paths are sequences of path components.  File contents are strings.     *)
(* Time is in milliseconds.                                                *)
(***************************************************************************)
EXTENDS Integers, Sequences, FiniteSets, TLC

(***************************************************************************)
(* Bounds of the model.                                                    *)
(***************************************************************************)
\* the number of file operations the child process performs in one run
MaxWrites == 2
\* the number of output chunks the PTY reader thread reads in one run
MaxPty == 1
\* the number of writes of the child in the runs that exercise the debouncer
DebounceOps == 3
\* the number of file operations of the child in the runs that exercise the
\* keyboard
KeysOps == 1
\* the number of file operations of the child in the long runs that fill the
\* sidebar log
LogRunOps == 52
\* file operations of the child in the runs over the noise tree
NoiseOps == 2

(***************************************************************************)
(* Program constants.                                                      *)
(***************************************************************************)
\* Duration::from_millis(500), the debounce window
DebounceMs == 500
\* the capacity of the sidebar log
LogCap == 50

(***************************************************************************)
(* The environment: the working tree, file contents, instants.            *)
(***************************************************************************)
\* the canonical working directory
Cwd == <<"w">>
\* the regular files of the working tree, relative to the working directory
RelFiles == {<<"main.txt">>, <<"sub", "main.txt">>}
\* canonical absolute paths of the files
Files == {Cwd \o r : r \in RelFiles}
\* the forms the watcher's root can take in the paths it reports: the
\* canonical directory, or the directory joined with the "." it was given
WatchRoots == {Cwd, Cwd \o <<".">>}
\* every path string the program can meet
AllPaths == {root \o r : root \in WatchRoots, r \in RelFiles}

\* a working tree with the files the noise filters are about: repository
\* metadata, build output, a dependency directory, dot files
NoiseRelFiles == {<<".git", "config">>, <<"target", "out.txt">>,
                  <<"node_modules", "pkg.txt">>, <<".env">>, <<".gitignore">>}
NoiseFiles == {Cwd \o r : r \in NoiseRelFiles}
NoisePaths == {root \o r : root \in WatchRoots, r \in NoiseRelFiles}

Absent == "<absent>"
Contents == {"", "hello", "hello world"}
DiskValues == Contents \cup {Absent}

\* what the child writes to each file
WriteContents(f) == IF f = Cwd \o <<"main.txt">> THEN Contents ELSE {"hello"}

NoEntry == "<none>"
NoTime == -1
\* the instants at which the model observes the clock
Instants == {0, 100, DebounceMs, DebounceMs + 100}

Kinds == {"Create", "Modify", "Remove"}

VARIABLES
    disk,               \* the working tree: canonical path -> content or Absent
    watch_root,         \* the root the watcher prefixes to the paths it reports
    clock,              \* Instant::now()
    channel,            \* the mpsc channel of AppEvent (rx side)
    child_ops,          \* file operations the child has performed
    pty_reads,          \* chunks the PTY reader thread has sent
    file_changes,       \* AppState.file_changes (sidebar log, newest first)
    debounce_map,       \* AppState.debounce_map
    file_cache,         \* AppState.file_cache
    approval_queue,     \* AppState.approval_queue
    ignore_next_write,  \* AppState.ignore_next_write
    modal_active,       \* AppState.modal_active
    parser,             \* AppState.parser: chunks fed to the emulator
    pc,                 \* position of the main thread
    outcome,            \* the point at which the last add_change returned
    decision,           \* the key the modal handler took and the change it popped
    pty_written,        \* the bytes written to the PTY writer since the last
                        \* poll for input
    reader_alive,       \* the PTY reader thread has not left its loop
    key_event,          \* the key event normal processing matched at the last
                        \* poll for input (a local of the loop body)
    passed_at           \* history: when a notification for (file, kind) last
                        \* passed the debouncer

envVars == <<disk, watch_root, clock, channel, child_ops, pty_reads>>
appVars == <<file_changes, debounce_map, file_cache, approval_queue,
             ignore_next_write, modal_active, parser>>
ctlVars == <<pc, outcome, decision>>
ptyVars == <<pty_written, reader_alive, key_event>>
vars == <<disk, watch_root, clock, channel, child_ops, pty_reads,
          file_changes, debounce_map, file_cache, approval_queue,
          ignore_next_write, modal_active, parser,
          pc, outcome, decision, pty_written, reader_alive, key_event,
          passed_at>>

NoPending == [path |-> <<>>, old_content |-> "", new_content |-> ""]
NoDecision == [key |-> "none", change |-> NoPending]

(***************************************************************************)
(* Paths.                                                                  *)
(***************************************************************************)
\* Path::file_name: the last component
FileName(path) == path[Len(path)]

\* Path::components: "." components inside a path are skipped
Components(path) == {path[i] : i \in {j \in 1..Len(path) : path[j] # "."}}

\* the file a path string designates
Resolve(path) == SelectSeq(path, LAMBDA c : c # ".")

\* std::fs::canonicalize succeeds when the file exists
Exists(d, path) == d[Resolve(path)] # Absent

VerbatimPrefix == "\\\\?\\"
RECURSIVE TrimVerbatim(_)
\* trim_start_matches(r"\\?\")
TrimVerbatim(path) ==
    IF path # <<>> /\ path[1] = VerbatimPrefix
    THEN TrimVerbatim(Tail(path))
    ELSE path

\* fn normalize_path
normalize_path(d, path) ==
    IF Exists(d, path)
    THEN TrimVerbatim(Resolve(path))
    ELSE TrimVerbatim(path)

(***************************************************************************)
(* Helpers of AppState.                                                    *)
(***************************************************************************)
\* file_cache.get(&cache_key).cloned().unwrap_or_default()
CacheGet(cache, key) == IF cache[key] = NoEntry THEN "" ELSE cache[key]

\* the noise filter of AppState::new
ScanSkips(path) == \E c \in Components(path) : c \in {".git", "target"}

\* file_name.starts_with('.'), over the file names of the model
StartsWithDot(name) == name \in {".git", ".gitignore", ".env"}

\* faulty variant: the dot-file rule is lost
IsNoiseDirsOnly(path) ==
    \E c \in Components(path) : c \in {".git", "target", "node_modules"}

\* the noise filter of add_change
IsNoise(path) ==
    \/ \E c \in Components(path) : c \in {".git", "target", "node_modules"}
    \/ (StartsWithDot(FileName(path)) /\ FileName(path) # ".gitignore")

\* faulty variant: the window is never over once an instant is on record
DebouncedForever(map, key, now) == map[key] # NoTime

\* the debounce test of add_change
Debounced(map, key, now) ==
    /\ map[key] # NoTime
    /\ now - map[key] < DebounceMs

\* std::fs::read_to_string(&path) succeeds
Readable(d, path) == d[Resolve(path)] # Absent

\* faulty variant: the comparison with the cache is lost
ContentAlwaysChanged(new_content, old_content) == FALSE

\* new_content == old_content, the no-op short-circuit
ContentUnchanged(new_content, old_content) == new_content = old_content

\* faulty variant: push_front instead of push_back
EnqueueFront(queue, change) == <<change>> \o queue

\* approval_queue.push_back
Enqueue(queue, change) == Append(queue, change)

\* faulty variant: the log grows without evicting
LogPushNoEvict(log, entry) == <<entry>> \o log

\* the sidebar log: pop_back when full, then push_front
LogPush(log, entry) ==
    <<entry>> \o (IF Len(log) >= LogCap THEN SubSeq(log, 1, Len(log) - 1) ELSE log)

\* faulty variant: the cache takes the new content as soon as the change is queued
CacheEagerUpdate(cache, change) == [cache EXCEPT ![change.path] = change.new_content]

\* the cache when a PendingChange is queued: "Don't update cache yet"
CacheOnEnqueue(cache, change) == cache

\* faulty variant: accept inserts the new content even when it is empty
AcceptAlwaysInsert(cache, p) == [cache EXCEPT ![p.path] = p.new_content]

\* accept: the cache after the head has been accepted
AcceptCache(cache, p) ==
    IF p.new_content = ""
    THEN [cache EXCEPT ![p.path] = NoEntry]
    ELSE [cache EXCEPT ![p.path] = p.new_content]

\* faulty variant: the modal is closed after every decision
ModalClosed(queue) == FALSE

\* state.modal_active = !state.approval_queue.is_empty()
ModalAfter(queue) == queue # <<>>

\* faulty variant: the revert is not announced to the ignore set
ArmNothing(ignore, p) == ignore

\* ignore_next_write.insert(pending.path.clone())
ArmIgnore(ignore, p) == ignore \cup {p.path}

\* faulty variant: the revert writes the rejected content
RevertToNew(p) == IF p.new_content = "" THEN Absent ELSE p.new_content

\* reject: what the revert puts on disk at the path of the change
RevertContent(p) == IF p.old_content = "" THEN Absent ELSE p.old_content

\* the notify event kind the watcher reports for a change of a file's content
EventKind(before, after) ==
    IF after = Absent THEN "Remove"
    ELSE IF before = Absent THEN "Create"
    ELSE "Modify"

\* faulty variant: the notification overtakes the events already sent
NotifyFront(ch, root, file, kind) ==
    <<[type |-> "FileChange",
       path |-> root \o SubSeq(file, Len(Cwd) + 1, Len(file)),
       kind |-> kind]>> \o ch

\* the watcher callback: AppEvent::FileChange(path, kind) sent on the channel
Notify(ch, root, file, kind) ==
    Append(ch, [type |-> "FileChange",
                path |-> root \o SubSeq(file, Len(Cwd) + 1, Len(file)),
                kind |-> kind])

PtyData == [type |-> "PtyData", path |-> <<>>, kind |-> "none"]

(***************************************************************************)
(* The keyboard.                                                           *)
(***************************************************************************)
\* the characters the keyboard of the model types
Chars == {"c", "d", "k", "l", "n", "q", "x", "y"}
\* the other KeyCode values of the model; F1 stands for the unmapped ones
SpecialCodes == {"Enter", "Backspace", "Tab", "Esc",
                 "Up", "Down", "Right", "Left", "F1"}
\* crossterm KeyEvent: the code and whether KeyModifiers::CONTROL is held
Keys == [code : Chars \cup SpecialCodes, ctrl : BOOLEAN]
NoKey == [code |-> "none", ctrl |-> FALSE]

\* c.to_string().as_bytes(): the UTF-8 encoding of the character
Utf8(ch) ==
    CASE ch = "c" -> <<99>>
      [] ch = "d" -> <<100>>
      [] ch = "k" -> <<107>>
      [] ch = "l" -> <<108>>
      [] ch = "n" -> <<110>>
      [] ch = "q" -> <<113>>
      [] ch = "x" -> <<120>>
      [] ch = "y" -> <<121>>

\* normal processing: the bytes the arm matching the key writes to the PTY
\* writer, <<>> when the arm writes nothing
KeyBytes(key) ==
    IF key.ctrl /\ key.code = "q" THEN <<>>
    ELSE IF key.ctrl /\ key.code = "c" THEN <<3>>
    ELSE IF key.ctrl /\ key.code \in {"k", "h", "l", "Up", "Down"} THEN <<>>
    ELSE IF key.code \in Chars THEN Utf8(key.code)
    ELSE CASE key.code = "Enter" -> <<13>>
           [] key.code = "Backspace" -> <<127>>
           [] key.code = "Tab" -> <<9>>
           [] key.code = "Esc" -> <<27>>
           [] key.code = "Up" -> <<27, 91, 65>>
           [] key.code = "Down" -> <<27, 91, 66>>
           [] key.code = "Right" -> <<27, 91, 67>>
           [] key.code = "Left" -> <<27, 91, 68>>
           [] OTHER -> <<>>

\* faulty variant: the modal does not intercept the keys
NotIntercepted(modal) == FALSE

\* if state.modal_active: the key goes to the modal and run_app returns
\* before normal processing
Intercepted(modal) == modal

\* the keys the main specification types in Idle state
MainKeys == {[code |-> "x", ctrl |-> FALSE]}

(***************************************************************************)
(* Initial state: main has spawned the child (main.rs:245) and registered  *)
(* the watcher (main.rs:304); AppState::new has not yet run.               *)
(***************************************************************************)
\* the working trees the model starts from
InitDisks ==
    { [f \in Files |-> Absent],
      [f \in Files |-> IF f = Cwd \o <<"main.txt">> THEN "hello" ELSE Absent],
      [f \in Files |-> IF f = Cwd \o <<"main.txt">> THEN "" ELSE "hello"] }

Init ==
    /\ disk \in InitDisks
    /\ watch_root \in WatchRoots
    /\ clock = 0
    /\ channel = <<>>
    /\ child_ops = 0
    /\ pty_reads = 0
    /\ file_changes = <<>>
    /\ debounce_map = [k \in {FileName(f) : f \in Files} \X Kinds |-> NoTime]
    /\ file_cache = [k \in AllPaths |-> NoEntry]
    /\ approval_queue = <<>>
    /\ ignore_next_write = {}
    /\ modal_active = FALSE
    /\ parser = 0
    /\ pc = "scan"
    /\ outcome = "none"
    /\ decision = NoDecision
    /\ pty_written = <<>>
    /\ reader_alive = TRUE
    /\ key_event = NoKey
    /\ passed_at = [k \in Files \X Kinds |-> NoTime]

Returned == pc \in {"returned_quit", "returned_modal", "returned_err"}

(***************************************************************************)
(* The environment: the clock, the child process, the PTY reader thread.   *)
(***************************************************************************)
\* time passes; the program reads the clock only in add_change and only
\* compares it with recorded instants, so the model lets it advance only
\* when a notification is about to be taken and an instant is on record
Tick ==
    /\ pc = "drain"
    /\ channel # <<>>
    /\ Head(channel).type = "FileChange"
    /\ \E k \in DOMAIN debounce_map : debounce_map[k] # NoTime
    /\ \E t \in Instants : t > clock /\ clock' = t
    /\ UNCHANGED <<disk, watch_root, channel, child_ops, pty_reads>>
    /\ UNCHANGED appVars
    /\ UNCHANGED ctlVars
    /\ UNCHANGED <<pty_written, reader_alive, key_event, passed_at>>

\* the child writes content c to a file (creating it when absent); the
\* watcher, once registered, reports it
ChildWrite ==
    /\ ~Returned
    /\ child_ops < MaxWrites
    /\ \E f \in Files : \E c \in WriteContents(f) :
        /\ disk' = [disk EXCEPT ![f] = c]
        /\ channel' = Notify(channel, watch_root, f, EventKind(disk[f], c))
    /\ child_ops' = child_ops + 1
    /\ UNCHANGED <<watch_root, clock, pty_reads>>
    /\ UNCHANGED appVars
    /\ UNCHANGED ctlVars
    /\ UNCHANGED <<pty_written, reader_alive, key_event, passed_at>>

\* the child deletes a file
ChildDelete ==
    /\ ~Returned
    /\ child_ops < MaxWrites
    /\ \E f \in Files :
        /\ disk[f] # Absent
        /\ disk' = [disk EXCEPT ![f] = Absent]
        /\ channel' = Notify(channel, watch_root, f, EventKind(disk[f], Absent))
    /\ child_ops' = child_ops + 1
    /\ UNCHANGED <<watch_root, clock, pty_reads>>
    /\ UNCHANGED appVars
    /\ UNCHANGED ctlVars
    /\ UNCHANGED <<pty_written, reader_alive, key_event, passed_at>>

\* the child overwrites an existing file (runs exercising the debouncer)
ChildModify ==
    /\ ~Returned
    /\ child_ops < DebounceOps
    /\ \E f \in Files : \E c \in WriteContents(f) :
        /\ disk[f] # Absent
        /\ disk' = [disk EXCEPT ![f] = c]
        /\ channel' = Notify(channel, watch_root, f, EventKind(disk[f], c))
    /\ child_ops' = child_ops + 1
    /\ UNCHANGED <<watch_root, clock, pty_reads>>
    /\ UNCHANGED appVars
    /\ UNCHANGED ctlVars
    /\ UNCHANGED <<pty_written, reader_alive, key_event, passed_at>>

\* the child writes or deletes a file (runs exercising the keyboard)
ChildEdit ==
    /\ ~Returned
    /\ child_ops < KeysOps
    /\ \E f \in Files : \E c \in WriteContents(f) \cup {Absent} :
        /\ c # disk[f]
        /\ disk' = [disk EXCEPT ![f] = c]
        /\ channel' = Notify(channel, watch_root, f, EventKind(disk[f], c))
    /\ child_ops' = child_ops + 1
    /\ UNCHANGED <<watch_root, clock, pty_reads>>
    /\ UNCHANGED appVars
    /\ UNCHANGED ctlVars
    /\ UNCHANGED <<pty_written, reader_alive, key_event, passed_at>>

\* the child creates main.txt, or deletes it when it exists, one debounce
\* window after the notification of its last operation was taken (long runs)
ChildToggle ==
    /\ pc = "drain"
    /\ channel = <<>>
    /\ child_ops < LogRunOps
    /\ LET f == Cwd \o <<"main.txt">>
           c == IF disk[f] = Absent THEN "hello" ELSE Absent
       IN
       /\ disk' = [disk EXCEPT ![f] = c]
       /\ channel' = Notify(channel, watch_root, f, EventKind(disk[f], c))
    /\ child_ops' = child_ops + 1
    /\ clock' = clock + DebounceMs
    /\ UNCHANGED <<watch_root, pty_reads>>
    /\ UNCHANGED appVars
    /\ UNCHANGED ctlVars
    /\ UNCHANGED <<pty_written, reader_alive, key_event, passed_at>>

\* the child writes or deletes a file of the noise tree
ChildTouch ==
    /\ ~Returned
    /\ child_ops < NoiseOps
    /\ \E f \in NoiseFiles : \E c \in {"hello world", Absent} :
        /\ c # disk[f]
        /\ disk' = [disk EXCEPT ![f] = c]
        /\ channel' = Notify(channel, watch_root, f, EventKind(disk[f], c))
    /\ child_ops' = child_ops + 1
    /\ UNCHANGED <<watch_root, clock, pty_reads>>
    /\ UNCHANGED appVars
    /\ UNCHANGED ctlVars
    /\ UNCHANGED <<pty_written, reader_alive, key_event, passed_at>>

\* the PTY reader thread reads a chunk and sends it
PtyRead ==
    /\ ~Returned
    /\ reader_alive
    /\ pty_reads < MaxPty
    /\ pty_reads' = pty_reads + 1
    /\ channel' = Append(channel, PtyData)
    /\ UNCHANGED <<disk, watch_root, clock, child_ops>>
    /\ UNCHANGED appVars
    /\ UNCHANGED ctlVars
    /\ UNCHANGED <<pty_written, reader_alive, key_event, passed_at>>

\* the PTY reader thread ends: read returned 0 bytes or an error, and the
\* thread leaves its loop, dropping its sender; main still holds a sender
PtyEof ==
    /\ reader_alive
    /\ reader_alive' = FALSE
    /\ UNCHANGED <<pty_written, key_event>>
    /\ UNCHANGED passed_at
    /\ UNCHANGED envVars
    /\ UNCHANGED appVars
    /\ UNCHANGED ctlVars

(***************************************************************************)
(* main: AppState::new.                                                    *)
(***************************************************************************)
\* AppState::new: the startup scan seeds the cache
Scan ==
    /\ pc = "scan"
    /\ file_cache' = [k \in DOMAIN file_cache |->
                        IF k \in DOMAIN disk /\ disk[k] # Absent
                                             /\ ~ScanSkips(k)
                        THEN disk[k] ELSE NoEntry]
    /\ pc' = "drain"
    /\ UNCHANGED <<file_changes, debounce_map, approval_queue,
                   ignore_next_write, modal_active, parser>>
    /\ UNCHANGED <<outcome, decision>>
    /\ UNCHANGED envVars
    /\ UNCHANGED <<pty_written, reader_alive, key_event, passed_at>>

(***************************************************************************)
(* AppState::add_change.                                                   *)
(***************************************************************************)
add_change(path, kind) ==
    LET file_name == FileName(path)
        cache_key == normalize_path(disk, path)
        key       == <<file_name, kind>>
        old_content == CacheGet(file_cache, cache_key)
        \* the FileChange pushed on the sidebar log, with or without a diff
        entry(d)  == [path |-> file_name, kind |-> kind, diff |-> d]
        \* the PendingChange pushed on the approval queue
        queued(new_content) == [path |-> cache_key,
                                old_content |-> old_content,
                                new_content |-> new_content]
    IN
    IF cache_key \in ignore_next_write THEN
        \* 1. ignore list: our own revert
        /\ ignore_next_write' = ignore_next_write \ {cache_key}
        /\ outcome' = "ignored"
        /\ UNCHANGED <<debounce_map, approval_queue, modal_active,
                       file_changes, file_cache, passed_at>>
    ELSE IF IsNoise(path) THEN
        \* 2. noise
        /\ outcome' = "noise"
        /\ UNCHANGED <<ignore_next_write, debounce_map, approval_queue,
                       modal_active, file_changes, file_cache, passed_at>>
    ELSE IF Debounced(debounce_map, key, clock) THEN
        \* 3. debounce
        /\ outcome' = "debounced"
        /\ UNCHANGED <<ignore_next_write, debounce_map, approval_queue,
                       modal_active, file_changes, file_cache, passed_at>>
    ELSE
        /\ debounce_map' = [debounce_map EXCEPT ![key] = clock]
        /\ passed_at' = [passed_at EXCEPT ![<<Resolve(path), kind>>] = clock]
        /\ UNCHANGED ignore_next_write
        \* 4. content logic and approval
        /\ IF kind \in {"Modify", "Create"} THEN
               IF Readable(disk, path) THEN
                   LET new_content == disk[Resolve(path)] IN
                   IF ContentUnchanged(new_content, old_content) THEN
                       /\ outcome' = "unchanged"
                       /\ UNCHANGED <<approval_queue, modal_active,
                                      file_changes, file_cache>>
                   ELSE
                       /\ approval_queue' = Enqueue(approval_queue,
                                                    queued(new_content))
                       /\ file_cache' = CacheOnEnqueue(file_cache,
                                                       queued(new_content))
                       /\ modal_active' = TRUE
                       /\ file_changes' = LogPush(file_changes, entry(TRUE))
                       /\ outcome' = "queued"
               ELSE
                   /\ file_changes' = LogPush(file_changes, entry(FALSE))
                   /\ outcome' = "unreadable"
                   /\ UNCHANGED <<approval_queue, modal_active, file_cache>>
           ELSE
               IF old_content # "" THEN
                   /\ approval_queue' = Enqueue(approval_queue, queued(""))
                   /\ file_cache' = CacheOnEnqueue(file_cache, queued(""))
                   /\ modal_active' = TRUE
                   /\ file_changes' = LogPush(file_changes, entry(TRUE))
                   /\ outcome' = "queued"
               ELSE
                   /\ file_changes' = LogPush(file_changes, entry(FALSE))
                   /\ outcome' = "remove_noop"
                   /\ UNCHANGED <<approval_queue, modal_active, file_cache>>

(***************************************************************************)
(* run_app, A: drain the channel.                                          *)
(***************************************************************************)
DrainPtyData ==
    /\ pc = "drain"
    /\ channel # <<>>
    /\ Head(channel).type = "PtyData"
    /\ channel' = Tail(channel)
    /\ parser' = parser + 1
    /\ UNCHANGED <<file_changes, debounce_map, file_cache, approval_queue,
                   ignore_next_write, modal_active>>
    /\ UNCHANGED <<disk, watch_root, clock, child_ops, pty_reads>>
    /\ UNCHANGED ctlVars
    /\ UNCHANGED <<pty_written, reader_alive, key_event, passed_at>>

DrainFileChange ==
    /\ pc = "drain"
    /\ channel # <<>>
    /\ Head(channel).type = "FileChange"
    /\ channel' = Tail(channel)
    /\ add_change(Head(channel).path, Head(channel).kind)
    /\ UNCHANGED parser
    /\ UNCHANGED <<disk, watch_root, clock, child_ops, pty_reads>>
    /\ UNCHANGED <<pc, decision>>
    /\ UNCHANGED ptyVars

\* try_recv finds the channel empty: render, then poll for input
DrainDone ==
    /\ pc = "drain"
    /\ channel = <<>>
    /\ pc' = "poll"
    /\ key_event' = NoKey
    /\ pty_written' = <<>>
    /\ UNCHANGED <<outcome, decision>>
    /\ UNCHANGED envVars
    /\ UNCHANGED appVars
    /\ UNCHANGED <<reader_alive, passed_at>>

(***************************************************************************)
(* run_app, C: poll input.                                                 *)
(***************************************************************************)
\* event::poll times out: next iteration of the loop
PollTimeout ==
    /\ pc = "poll"
    /\ pc' = "drain"
    /\ UNCHANGED <<outcome, decision>>
    /\ UNCHANGED envVars
    /\ UNCHANGED appVars
    /\ UNCHANGED <<pty_written, reader_alive, key_event, passed_at>>

\* modal interception, KeyCode::Char('y'): accept
KeyAccept ==
    /\ pc = "poll"
    /\ modal_active
    /\ IF approval_queue # <<>> THEN
           /\ approval_queue' = Tail(approval_queue)
           /\ file_cache' = AcceptCache(file_cache, Head(approval_queue))
           /\ decision' = [key |-> "y", change |-> Head(approval_queue)]
       ELSE
           /\ UNCHANGED <<approval_queue, file_cache>>
           /\ decision' = [key |-> "y", change |-> NoPending]
    /\ modal_active' = ModalAfter(approval_queue')
    /\ pc' = "returned_modal"
    /\ UNCHANGED <<file_changes, debounce_map, ignore_next_write, parser>>
    /\ UNCHANGED outcome
    /\ UNCHANGED envVars
    /\ UNCHANGED <<pty_written, reader_alive, key_event, passed_at>>

\* modal interception, KeyCode::Char('n'): pop the head and arm the ignore set
KeyReject ==
    /\ pc = "poll"
    /\ modal_active
    /\ IF approval_queue # <<>> THEN
           /\ approval_queue' = Tail(approval_queue)
           /\ ignore_next_write' = ArmIgnore(ignore_next_write, Head(approval_queue))
           /\ decision' = [key |-> "n", change |-> Head(approval_queue)]
           /\ pc' = "revert"
           /\ UNCHANGED modal_active
       ELSE
           /\ UNCHANGED <<approval_queue, ignore_next_write>>
           /\ decision' = [key |-> "n", change |-> NoPending]
           /\ modal_active' = ModalAfter(approval_queue)
           /\ pc' = "returned_modal"
    /\ UNCHANGED <<file_changes, debounce_map, file_cache, parser>>
    /\ UNCHANGED outcome
    /\ UNCHANGED envVars
    /\ UNCHANGED <<pty_written, reader_alive, key_event, passed_at>>

\* ... KeyCode::Char('n') continued: the revert on disk (remove_file or
\* write, its result ignored), then modal_active, then return
Revert ==
    /\ pc = "revert"
    /\ \E ok \in BOOLEAN :
        LET p      == decision.change
            file   == Resolve(p.path)
            after  == RevertContent(p)
            \* remove_file fails on a missing file; any call can fail
            done   == ok /\ ~(after = Absent /\ disk[file] = Absent)
        IN
        IF done THEN
            /\ disk' = [disk EXCEPT ![file] = after]
            /\ channel' = Notify(channel, watch_root, file, EventKind(disk[file], after))
        ELSE
            UNCHANGED <<disk, channel>>
    /\ modal_active' = ModalAfter(approval_queue)
    /\ pc' = "returned_modal"
    /\ UNCHANGED <<file_changes, debounce_map, file_cache, approval_queue,
                   ignore_next_write, parser>>
    /\ UNCHANGED <<outcome, decision>>
    /\ UNCHANGED <<watch_root, clock, child_ops, pty_reads>>
    /\ UNCHANGED <<pty_written, reader_alive, key_event, passed_at>>

\* modal interception, any other key: consumed
KeyConsumed ==
    /\ pc = "poll"
    /\ modal_active
    /\ decision' = [key |-> "other", change |-> NoPending]
    /\ pc' = "returned_modal"
    /\ UNCHANGED outcome
    /\ UNCHANGED envVars
    /\ UNCHANGED appVars
    /\ UNCHANGED <<pty_written, reader_alive, key_event, passed_at>>

\* normal processing, Ctrl+Q
KeyQuit ==
    /\ pc = "poll"
    /\ ~modal_active
    /\ pc' = "returned_quit"
    /\ UNCHANGED <<outcome, decision>>
    /\ UNCHANGED envVars
    /\ UNCHANGED appVars
    /\ UNCHANGED <<pty_written, reader_alive, key_event, passed_at>>

\* normal processing, Ctrl+L: clear the sidebar log, then flush the writer
KeyClearLog ==
    /\ pc = "poll"
    /\ ~modal_active
    /\ file_changes' = <<>>
    /\ \E ok \in BOOLEAN : pc' = IF ok THEN "drain" ELSE "returned_err"
    /\ UNCHANGED <<debounce_map, file_cache, approval_queue,
                   ignore_next_write, modal_active, parser>>
    /\ UNCHANGED <<outcome, decision>>
    /\ UNCHANGED envVars
    /\ UNCHANGED <<pty_written, reader_alive, key_event, passed_at>>

\* normal processing of a key other than Ctrl+Q and Ctrl+L: the arm that
\* matches writes its bytes (write_all), then the writer is flushed; either
\* call can fail, and run_app returns the error
ForwardKey(key) ==
    /\ pc = "poll"
    /\ ~Intercepted(modal_active)
    /\ ~(key.ctrl /\ key.code \in {"q", "l"})
    /\ key_event' = key
    /\ \E io \in {"ok", "write_err", "flush_err"} :
        /\ io = "write_err" => KeyBytes(key) # <<>>
        /\ pty_written' = IF io = "write_err" THEN <<>> ELSE KeyBytes(key)
        /\ pc' = IF io = "ok" THEN "drain" ELSE "returned_err"
    /\ UNCHANGED <<outcome, decision>>
    /\ UNCHANGED <<reader_alive, passed_at>>
    /\ UNCHANGED envVars
    /\ UNCHANGED appVars

\* normal processing, a key passed through to the PTY
KeyForward == \E key \in MainKeys : ForwardKey(key)

\* normal processing, any key of the keyboard
KeyForwardAny == \E key \in Keys : ForwardKey(key)

\* Event::Resize: resize the PTY (the error is returned), new emulator
Resize ==
    /\ pc = "poll"
    /\ \E ok \in BOOLEAN :
        IF ok THEN parser' = 0 /\ pc' = "drain"
        ELSE UNCHANGED parser /\ pc' = "returned_err"
    /\ UNCHANGED <<file_changes, debounce_map, file_cache, approval_queue,
                   ignore_next_write, modal_active>>
    /\ UNCHANGED <<outcome, decision>>
    /\ UNCHANGED envVars
    /\ UNCHANGED <<pty_written, reader_alive, key_event, passed_at>>

Next ==
    \/ Tick
    \/ ChildWrite
    \/ ChildDelete
    \/ PtyRead
    \/ Scan
    \/ DrainPtyData
    \/ DrainFileChange
    \/ DrainDone
    \/ PollTimeout
    \/ KeyAccept
    \/ KeyReject
    \/ Revert
    \/ KeyConsumed
    \/ KeyQuit
    \/ KeyClearLog
    \/ KeyForward

Spec == Init /\ [][Next]_vars

(***************************************************************************)
(* Runs that exercise the debouncer: both files exist at startup, the      *)
(* child overwrites them, the operator types nothing.                      *)
(***************************************************************************)
InitDebounce == Init /\ \A f \in Files : disk[f] # Absent

NextDebounce ==
    \/ Tick
    \/ ChildModify
    \/ Scan
    \/ DrainFileChange
    \/ DrainDone
    \/ PollTimeout

SpecDebounce == InitDebounce /\ [][NextDebounce]_vars

(***************************************************************************)
(* Runs that exercise the keyboard: main.txt is tracked at startup; every  *)
(* key of the model, terminal resizes, one file operation of the child.    *)
(***************************************************************************)
InitKeys == Init /\ disk[Cwd \o <<"main.txt">>] = "hello"

NextKeys ==
    \/ ChildEdit
    \/ PtyRead
    \/ Scan
    \/ DrainPtyData
    \/ DrainFileChange
    \/ DrainDone
    \/ PollTimeout
    \/ Resize
    \/ KeyAccept
    \/ KeyReject
    \/ Revert
    \/ KeyConsumed
    \/ KeyQuit
    \/ KeyClearLog
    \/ KeyForwardAny

SpecKeys == InitKeys /\ [][NextKeys]_vars

(***************************************************************************)
(* The same runs with the end of the PTY reader thread, under the          *)
(* scheduling of run_app: the loop never blocks (try_recv, and a poll that *)
(* times out after 50 ms), so a coordinator step that stays possible is    *)
(* eventually taken, and a reject goes on to its revert.  Nothing obliges  *)
(* the operator to type.                                                   *)
(***************************************************************************)
NextReaderEnd ==
    \/ ChildEdit
    \/ PtyRead
    \/ PtyEof
    \/ Scan
    \/ DrainPtyData
    \/ DrainFileChange
    \/ DrainDone
    \/ PollTimeout
    \/ Resize
    \/ KeyAccept
    \/ KeyReject
    \/ Revert
    \/ KeyConsumed
    \/ KeyQuit
    \/ KeyClearLog
    \/ KeyForward

\* the steps run_app takes without any input event
LoopStep == Scan \/ DrainPtyData \/ DrainFileChange \/ DrainDone \/ PollTimeout

FairSpec ==
    InitKeys /\ [][NextReaderEnd]_vars /\ WF_vars(LoopStep) /\ WF_vars(Revert)

(***************************************************************************)
(* Long runs that fill the sidebar log: the child creates and deletes      *)
(* main.txt again and again, the operator types nothing.                   *)
(***************************************************************************)
NextLog ==
    \/ ChildToggle
    \/ Scan
    \/ DrainFileChange
    \/ DrainDone
    \/ PollTimeout

SpecLog == Init /\ [][NextLog]_vars

\* runs over the noise tree: the scan and the filter of add_change meet
\* files of .git, target and node_modules, and dot files
InitNoise ==
    /\ disk \in [NoiseFiles -> {"hello", Absent}]
    /\ watch_root \in WatchRoots
    /\ clock = 0
    /\ channel = <<>>
    /\ child_ops = 0
    /\ pty_reads = 0
    /\ file_changes = <<>>
    /\ debounce_map = [k \in {FileName(f) : f \in NoiseFiles} \X Kinds
                          |-> NoTime]
    /\ file_cache = [k \in NoisePaths |-> NoEntry]
    /\ approval_queue = <<>>
    /\ ignore_next_write = {}
    /\ modal_active = FALSE
    /\ parser = 0
    /\ pc = "scan"
    /\ outcome = "none"
    /\ decision = NoDecision
    /\ pty_written = <<>>
    /\ reader_alive = TRUE
    /\ key_event = NoKey
    /\ passed_at = [k \in NoiseFiles \X Kinds |-> NoTime]

NextNoise ==
    \/ Tick
    \/ ChildTouch
    \/ Scan
    \/ DrainFileChange
    \/ DrainDone
    \/ PollTimeout

SpecNoise == InitNoise /\ [][NextNoise]_vars

(***************************************************************************)
(* Steps of the program, as seen from outside, for the properties below.   *)
(***************************************************************************)
\* the coordinator takes an event from the channel
IsDrainStep == pc = "drain" /\ channel # <<>> /\ channel' = Tail(channel)
\* add_change runs on the notification at the head of the channel
IsAddChangeStep == IsDrainStep /\ Head(channel).type = "FileChange"
\* the modal handler pops the head of the queue on y or n
IsDecisionStep(k) ==
    /\ pc = "poll" /\ pc' # "poll"
    /\ decision.key = "none" /\ decision'.key = k
    /\ approval_queue # <<>>
IsAcceptStep == IsDecisionStep("y")
IsRejectStep == IsDecisionStep("n")
\* the revert of a reject: remove_file or write has been called
IsRevertStep == pc = "revert" /\ pc' # "revert"
\* content of a file, a missing file counting as the empty string
DiskContent(d, path) == IF d[Resolve(path)] = Absent THEN "" ELSE d[Resolve(path)]

TypeOK ==
    /\ disk \in [Files -> DiskValues]
    /\ watch_root \in WatchRoots
    /\ clock \in Instants
    /\ child_ops \in 0..MaxWrites
    /\ pty_reads \in 0..MaxPty
    /\ Len(file_changes) <= LogCap
    /\ file_cache \in [AllPaths -> Contents \cup {NoEntry}]
    /\ ignore_next_write \subseteq AllPaths
    /\ modal_active \in BOOLEAN
    /\ pc \in {"scan", "drain", "poll", "revert",
               "returned_quit", "returned_modal", "returned_err"}
    /\ pty_written \in {KeyBytes(k) : k \in Keys}
    /\ reader_alive \in BOOLEAN
    /\ key_event \in Keys \cup {NoKey}
    /\ passed_at \in [Files \X Kinds -> Instants \cup {NoTime}]

(***************************************************************************)
(* C1..C10: the approval workflow.                                         *)
(***************************************************************************)

\* C1: PendingChanges are decided in the order they were enqueued: every
\* step leaves the queue alone, appends one PendingChange at its tail, or
\* removes its head; the change a y or n decides is the head of the queue,
\* and a decision is made only once (no change is decided twice, or both
\* accepted and rejected).
C1_FifoDecisions ==
    [][ /\ \/ approval_queue' = approval_queue
           \/ /\ Len(approval_queue') = Len(approval_queue) + 1
              /\ SubSeq(approval_queue', 1, Len(approval_queue)) = approval_queue
              /\ IsAddChangeStep
           \/ /\ approval_queue # <<>>
              /\ approval_queue' = Tail(approval_queue)
              /\ decision'.change = Head(approval_queue)
              /\ IsAcceptStep \/ IsRejectStep
        /\ decision' # decision => decision.key = "none"
        /\ (IsAcceptStep \/ IsRejectStep) =>
               /\ approval_queue' = Tail(approval_queue)
               /\ decision'.change = Head(approval_queue)
      ]_vars

\* C1 witness: two changes to different paths were queued and the operator
\* has decided the first one; the second is still at the head.
C1_Witness ==
    /\ pc = "returned_modal"
    /\ decision.key \in {"y", "n"}
    /\ approval_queue # <<>>
    /\ decision.change.path # <<>>
    /\ decision.change.path # approval_queue[1].path

\* C2: outside the reject handler, the workflow is Reviewing (modal_active)
\* exactly when the approval queue is not empty.
C2_ModalIffQueued ==
    pc # "revert" => (modal_active <=> approval_queue # <<>>)

\* C2 witness: a reject of the only queued change has brought the workflow
\* back to Idle.
C2_Witness ==
    /\ pc = "returned_modal"
    /\ decision.key = "n"
    /\ decision.change.path # <<>>
    /\ approval_queue = <<>>
    /\ ~modal_active

\* C3: after the startup scan the Snapshot Cache changes only in an accept:
\* no add_change (dropped, no-op or queued), no reject and no revert
\* changes it.
C3_CacheOnlyByAccept ==
    [][ /\ (pc # "scan" /\ file_cache' # file_cache) => IsAcceptStep
        /\ (IsAddChangeStep \/ IsRejectStep \/ IsRevertStep) =>
               file_cache' = file_cache
      ]_vars

\* C3 witness: a notification has been queued for review and the cache
\* still holds the old content of its path, not the pending one.
C3_Witness ==
    /\ outcome = "queued"
    /\ approval_queue # <<>>
    /\ LET p == approval_queue[Len(approval_queue)] IN
          /\ CacheGet(file_cache, p.path) = p.old_content
          /\ CacheGet(file_cache, p.path) # p.new_content

\* C4: accept removes the head p; afterwards the cache maps p.path to p.new
\* when p.new is not empty and has no entry for p.path when it is empty;
\* the other cache entries, the IgnoreSet, the rest of the queue and the
\* disk are unchanged, and the workflow is Idle iff the queue is now empty.
C4_AcceptEffect ==
    [][ IsAcceptStep =>
          LET p == Head(approval_queue) IN
          /\ approval_queue' = Tail(approval_queue)
          /\ file_cache'[p.path] = (IF p.new_content = "" THEN NoEntry
                                    ELSE p.new_content)
          /\ \A k \in AllPaths \ {p.path} : file_cache'[k] = file_cache[k]
          /\ ignore_next_write' = ignore_next_write
          /\ disk' = disk
          /\ modal_active' = (Tail(approval_queue) # <<>>)
      ]_vars

\* C4 witness: the scenario of the specification, cache {main.txt: "hello"},
\* one pending change to "hello world", accepted.
C4_Witness ==
    /\ decision = [key |-> "y",
                   change |-> [path |-> Cwd \o <<"main.txt">>,
                               old_content |-> "hello",
                               new_content |-> "hello world"]]
    /\ file_cache[Cwd \o <<"main.txt">>] = "hello world"
    /\ approval_queue = <<>>
    /\ ~modal_active

\* C5: reject removes the head p and arms the IgnoreSet for p.path without
\* touching the disk; the revert comes afterwards, with the entry armed: it
\* deletes the file when p.old is empty and writes p.old otherwise (or
\* fails and leaves the disk alone); between the arming and the revert the
\* coordinator takes no event from the channel, and the revert leaves the
\* entry armed for the notification it causes.
C5_ArmBeforeWrite ==
    [][ /\ IsRejectStep =>
              /\ approval_queue' = Tail(approval_queue)
              /\ ignore_next_write' = ignore_next_write \cup {Head(approval_queue).path}
              /\ disk' = disk
              /\ pc' = "revert"
        /\ pc = "revert" =>
              /\ ~IsDrainStep
              /\ outcome' = outcome
              /\ decision.change.path \in ignore_next_write
              /\ decision.change.path \in ignore_next_write'
        /\ IsRevertStep =>
              LET p == decision.change IN
              \/ disk' = disk
              \/ disk' = [disk EXCEPT ![Resolve(p.path)] =
                            IF p.old_content = "" THEN Absent ELSE p.old_content]
      ]_vars

\* C5 witness: a reject has been decided, its revert has changed the disk
\* and sent its notification, and the IgnoreSet holds the path.
C5_Witness ==
    /\ pc = "returned_modal"
    /\ decision.key = "n"
    /\ decision.change.path \in ignore_next_write
    /\ channel # <<>>
    /\ Resolve(channel[Len(channel)].path) = decision.change.path
    /\ DiskContent(disk, decision.change.path) = decision.change.old_content

\* C6 (as claimed): the notification of the program's own revert is dropped
\* by the coordinator and takes the IgnoreSet entry with it, so the entry
\* is never left armed: no run stops with a notification still in the
\* channel for a path the IgnoreSet is armed for.
C6_RevertNotificationDropped ==
    \A i \in 1..Len(channel) :
        (/\ channel[i].type = "FileChange"
         /\ \E k \in ignore_next_write : Resolve(k) = Resolve(channel[i].path))
        => ~Returned

C8_RejectedCreateLeavesNothing ==
    (/\ Returned
     /\ decision.key = "n"
     /\ decision.change.path # <<>>
     /\ decision.change.old_content = ""
     /\ disk[Resolve(decision.change.path)] = Absent)
    => /\ file_cache[decision.change.path] = NoEntry
       /\ decision.change.path \notin ignore_next_write

\* C9 (as claimed): the approval queue never holds two PendingChanges for
\* the same path with the same old and new content.
C9_NoDuplicatePending ==
    \A i, j \in 1..Len(approval_queue) :
        i < j => approval_queue[i] # approval_queue[j]

\* C10: a Create or Modify notification for a file whose content on disk
\* equals the cached content of its canonical path (no entry counting as
\* the empty string) leaves the queue, the workflow state, the cache and
\* the log unchanged.
C10_SameContentNoOp ==
    [][ (/\ IsAddChangeStep
         /\ Head(channel).kind \in {"Create", "Modify"}
         /\ disk[Resolve(Head(channel).path)] # Absent
         /\ disk[Resolve(Head(channel).path)]
                = CacheGet(file_cache, Resolve(Head(channel).path)))
        => /\ approval_queue' = approval_queue
           /\ modal_active' = modal_active
           /\ file_cache' = file_cache
           /\ file_changes' = file_changes
      ]_vars

\* C10 witness: a notification passed the debouncer and was found to carry
\* the cached content; nothing is queued and nothing is logged.
C10_Witness ==
    /\ outcome = "unchanged"
    /\ approval_queue = <<>>
    /\ ~modal_active
    /\ file_changes = <<>>
    /\ \E k \in DOMAIN debounce_map : debounce_map[k] # NoTime

(***************************************************************************)
(* C11..C20: notifications, debouncing, keys, the log.                     *)
(***************************************************************************)

\* C11 (as claimed): no content change is lost.  The case of a file present
\* on disk: whenever add_change runs on a Create or Modify notification for
\* a path that is not noise and not armed in the IgnoreSet, and the content
\* of the file differs from the cached content of the path (a missing entry
\* counting as the empty string), a PendingChange for that path with the
\* cached and the current content is appended to the approval queue.
C11_NoContentChangeLost ==
    [][ (/\ IsAddChangeStep
         /\ Head(channel).kind \in {"Create", "Modify"}
         /\ ~IsNoise(Head(channel).path)
         /\ Readable(disk, Head(channel).path)
         /\ Resolve(Head(channel).path) \notin ignore_next_write
         /\ disk[Resolve(Head(channel).path)]
                # CacheGet(file_cache, Resolve(Head(channel).path)))
        => approval_queue' =
               Append(approval_queue,
                      [path |-> Resolve(Head(channel).path),
                       old_content |-> CacheGet(file_cache, Resolve(Head(channel).path)),
                       new_content |-> disk[Resolve(Head(channel).path)]])
      ]_vars

\* C12 (as claimed): a Modify notification processed less than 500 ms
\* after a Modify for the same path passed the debouncer is dropped and
\* queues nothing; one processed 500 ms or more after the last Modify for
\* the same path that passed is evaluated against the cache (queued, or a
\* no-op when the content is identical).
C12_ModifyWindow ==
    [][ (/\ IsAddChangeStep
         /\ Head(channel).kind = "Modify"
         /\ passed_at[<<Resolve(Head(channel).path), "Modify">>] # NoTime)
        => LET last == passed_at[<<Resolve(Head(channel).path), "Modify">>] IN
           IF clock - last < DebounceMs
           THEN outcome' = "debounced" /\ approval_queue' = approval_queue
           ELSE outcome' \in {"queued", "unchanged"}
      ]_vars

\* C13 (as claimed): a notification is dropped by the debouncer only when
\* a notification for the same path and the same kind passed the debouncer
\* less than 500 ms before.
C13_DropOnlySamePath ==
    [][ (IsAddChangeStep /\ outcome' = "debounced")
        => LET last == passed_at[<<Resolve(Head(channel).path),
                                   Head(channel).kind>>] IN
           last # NoTime /\ clock - last < DebounceMs
      ]_vars

\* C14: while the workflow is Reviewing no step writes to the PTY; a key
\* other than y and n taken by the modal leaves the queue, the cache, the
\* IgnoreSet, the disk and the log unchanged; and a chunk of process output
\* at the head of the channel is still taken by the drain loop and fed to
\* the emulator.
C14_ReviewGate ==
    [][ /\ modal_active => pty_written' \in {pty_written, <<>>}
        /\ (decision.key = "none" /\ decision'.key = "other") =>
               /\ approval_queue' = approval_queue
               /\ file_cache' = file_cache
               /\ ignore_next_write' = ignore_next_write
               /\ disk' = disk
               /\ file_changes' = file_changes
        /\ (/\ modal_active
            /\ pc = "drain"
            /\ channel # <<>>
            /\ Head(channel).type = "PtyData") =>
               /\ ENABLED DrainPtyData
               /\ IsDrainStep => parser' = parser + 1
      ]_vars

\* C14 witness: a change is queued, a chunk of output was fed to the
\* emulator, the operator typed a key other than y and n: nothing was
\* written to the PTY and the change is still queued.
C14_Witness ==
    /\ decision.key = "other"
    /\ modal_active
    /\ approval_queue # <<>>
    /\ parser > 0
    /\ pty_written = <<>>

\* C15 (as claimed): handling a key while Reviewing (accept, reject or a
\* discarded key) leaves the coordinator loop running.
C15_DecisionKeepsLoopRunning ==
    [][ decision' # decision => ~Returned' ]_vars

\* C16 (as claimed): once the PTY reader thread has ended, run_app
\* eventually returns, whether or not the operator types anything.
C16_ExitsOnReaderEnd == (~reader_alive) ~> Returned

\* C17 (as claimed): in Idle state Ctrl+C writes 0x03, Ctrl+D 0x04, Enter
\* 0x0D, Backspace 0x7F, Tab 0x09, Escape 0x1B, the arrows ESC [ A/B/C/D
\* and a printable character its own byte; Ctrl+Q writes nothing and
\* quits; y and n change neither the queue nor the cache.
C17_KeyMapping ==
    [][ /\ (key_event' # key_event /\ pc' = "drain") =>
              LET k == key_event' IN
              /\ (k.ctrl /\ k.code = "c") => pty_written' = <<3>>
              /\ (k.ctrl /\ k.code = "d") => pty_written' = <<4>>
              /\ (~k.ctrl /\ k.code = "Enter") => pty_written' = <<13>>
              /\ (~k.ctrl /\ k.code = "Backspace") => pty_written' = <<127>>
              /\ (~k.ctrl /\ k.code = "Tab") => pty_written' = <<9>>
              /\ (~k.ctrl /\ k.code = "Esc") => pty_written' = <<27>>
              /\ (~k.ctrl /\ k.code = "Up") => pty_written' = <<27, 91, 65>>
              /\ (~k.ctrl /\ k.code = "Down") => pty_written' = <<27, 91, 66>>
              /\ (~k.ctrl /\ k.code = "Right") => pty_written' = <<27, 91, 67>>
              /\ (~k.ctrl /\ k.code = "Left") => pty_written' = <<27, 91, 68>>
              /\ (~k.ctrl /\ k.code \in Chars) => pty_written' = Utf8(k.code)
              /\ (k.code \in {"y", "n"}) =>
                     approval_queue' = approval_queue /\ file_cache' = file_cache
        /\ pc' = "returned_quit" => pty_written' = pty_written /\ pty_written' = <<>>
      ]_vars

\* C18 (as claimed): a Remove notification for a deleted file, not noise,
\* not armed in the IgnoreSet and not debounced, appends a PendingChange
\* with the cached content of the file as old and "" as new when that
\* content is not empty, and leaves the queue alone when the cache has no
\* or empty content for the file; and when such a deletion has been
\* rejected and the file rewritten, the notification of the rewrite does
\* not outlive the run unprocessed.
C18_RemoveReviewed ==
    [][ /\ (/\ IsAddChangeStep
            /\ Head(channel).kind = "Remove"
            /\ disk[Resolve(Head(channel).path)] = Absent
            /\ ~IsNoise(Head(channel).path)
            /\ Head(channel).path \notin ignore_next_write
            /\ Resolve(Head(channel).path) \notin ignore_next_write
            /\ ~Debounced(debounce_map,
                          <<FileName(Head(channel).path), "Remove">>, clock))
           => LET file   == Resolve(Head(channel).path)
                  cached == CacheGet(file_cache, file)
              IN
              IF cached # ""
              THEN approval_queue' =
                       Append(approval_queue,
                              [path |-> file, old_content |-> cached,
                               new_content |-> ""])
              ELSE approval_queue' = approval_queue
        /\ (/\ Returned'
            /\ decision'.key = "n"
            /\ decision'.change.old_content # ""
            /\ decision'.change.new_content = "")
           => \A i \in 1..Len(channel') :
                  Resolve(channel'[i].path) # Resolve(decision'.change.path)
      ]_vars

\* C19: the disk changes only by an operation of the child or by the
\* revert of a reject; the revert changes no file other than the one of the
\* rejected change, and the IgnoreSet is armed for that path when it runs.
\* Accept, add_change, resize, key forwarding and quit leave the disk alone.
C19_DiskOnlyByRevert ==
    [][ /\ disk' # disk =>
              \/ child_ops' = child_ops + 1
              \/ /\ IsRevertStep
                 /\ decision.change.path \in ignore_next_write
                 /\ \A f \in Files \ {Resolve(decision.change.path)} :
                        disk'[f] = disk[f]
        /\ (IsAcceptStep \/ IsAddChangeStep) => disk' = disk
        /\ (pc = "poll" /\ pc' \in {"drain", "returned_quit", "returned_err"})
              => disk' = disk
      ]_vars

\* C19 witness: a change was rejected and its revert has rewritten the
\* file while the IgnoreSet held the path.
C19_Witness ==
    /\ pc = "returned_modal"
    /\ decision.key = "n"
    /\ decision.change.old_content # ""
    /\ decision.change.path \in ignore_next_write
    /\ disk[Resolve(decision.change.path)] = decision.change.old_content
    /\ channel # <<>>

\* C20: the sidebar log never holds more than 50 entries; add_change puts
\* a new entry at the front, and the entries behind it are the former log,
\* in order, without its last (oldest) entry when the log was full.
C20_LogBounded ==
    [][ /\ Len(file_changes') <= LogCap
        /\ (IsAddChangeStep /\ file_changes' # file_changes) =>
               /\ file_changes'[1].kind = Head(channel).kind
               /\ Tail(file_changes') =
                      IF Len(file_changes) = LogCap
                      THEN SubSeq(file_changes, 1, LogCap - 1)
                      ELSE file_changes
      ]_vars

\* C20 witness: 51 notifications were logged; the log holds 50 entries, the
\* newest (a Create) at the front, and the first one (a Create) is gone: the
\* oldest entry left is the second notification, a Remove.
C20_Witness ==
    /\ child_ops = LogCap + 1
    /\ channel = <<>>
    /\ outcome = "queued"
    /\ Len(file_changes) = LogCap
    /\ file_changes[1].kind = "Create"
    /\ file_changes[LogCap].kind = "Remove"

(***************************************************************************)
(* C21..C29: ordering, the filters, errors, startup.                       *)
(***************************************************************************)

\* C21: the merged stream is consumed in arrival order: a step leaves the
\* channel alone, adds one event behind those already sent, or takes the
\* event at its head; the event taken is the one processed, whatever its
\* producer (a chunk goes to the emulator and leaves the approval state
\* alone, a notification goes to add_change and leaves the emulator alone),
\* so an event is never processed before one sent earlier.
C21_ArrivalOrder ==
    [][ /\ \/ channel' = channel
           \/ /\ Len(channel') = Len(channel) + 1
              /\ SubSeq(channel', 1, Len(channel)) = channel
           \/ /\ channel # <<>>
              /\ channel' = Tail(channel)
              /\ pc = "drain"
        /\ (IsDrainStep /\ Head(channel).type = "PtyData") =>
               /\ parser' = parser + 1
               /\ outcome' = outcome
               /\ approval_queue' = approval_queue
               /\ file_changes' = file_changes
        /\ IsAddChangeStep =>
               /\ parser' = parser
               /\ Len(approval_queue') > Len(approval_queue) =>
                      /\ approval_queue'[Len(approval_queue')].path
                             = normalize_path(disk, Head(channel).path)
                      /\ file_changes'[1].kind = Head(channel).kind
      ]_vars

\* C21 witness: a notification has been processed while a chunk of output
\* and a later notification wait behind it in the channel, the chunk first.
C21_Witness ==
    /\ outcome # "none"
    /\ Len(channel) >= 2
    /\ channel[1].type = "PtyData"
    /\ channel[2].type = "FileChange"

\* C22 (as claimed): add_change appends one entry to the log when it queues
\* a PendingChange, and leaves the log alone when it queues none (the
\* notification was dropped or resolved as a no-op).
C22_LogIffQueued ==
    [][ IsAddChangeStep =>
          IF Len(approval_queue') > Len(approval_queue)
          THEN /\ Len(file_changes') = Len(file_changes) + 1
               /\ Tail(file_changes') = file_changes
          ELSE file_changes' = file_changes
      ]_vars

\* C23: a notification whose path has a component .git, target or
\* node_modules, or whose base name starts with a dot and is not .gitignore,
\* is dropped before the debouncer: it queues nothing, logs nothing and
\* leaves the debounce table and the cache as they were; a .gitignore
\* outside those directories is not dropped by the noise filter.
C23_NoiseDropped ==
    [][ IsAddChangeStep =>
          LET p == Head(channel).path
              in_noise_dir == \E i \in 1..Len(p) :
                                 p[i] \in {".git", "target", "node_modules"}
              dot_file == p[Len(p)] \in {".env", ".git"}
          IN
          /\ (in_noise_dir \/ dot_file) =>
                 /\ outcome' = "noise"
                 /\ approval_queue' = approval_queue
                 /\ file_changes' = file_changes
                 /\ debounce_map' = debounce_map
                 /\ file_cache' = file_cache
          /\ (p[Len(p)] = ".gitignore" /\ ~in_noise_dir) => outcome' # "noise"
      ]_vars

\* a .gitignore notification has passed the filter and a later notification
\* was dropped as noise
C23_Witness ==
    /\ outcome = "noise"
    /\ \E k \in Kinds : debounce_map[<<".gitignore", k>>] # NoTime
    /\ \E i \in 1..Len(approval_queue) :
           FileName(approval_queue[i].path) = ".gitignore"

\* C26 (as claimed): the startup scan skips the directories whose
\* notifications the filter drops: no file with a component .git, target or
\* node_modules has an entry in the cache.
C26_ScanSkipsNoiseDirs ==
    \A k \in DOMAIN file_cache :
        (\E i \in 1..Len(k) : k[i] \in {".git", "target", "node_modules"})
            => file_cache[k] = NoEntry

\* C24 (as claimed): when the revert of a reject fails (nothing is written,
\* no notification follows), the loop goes on and the next notification for
\* that path is compared with the cache instead of being swallowed: the
\* ignore set does not hold the path once the failed revert is over.
C24_FailedRevertNotSwallowing ==
    [][ (IsRevertStep /\ channel' = channel) =>
          /\ pc' = "drain"
          /\ decision.change.path \notin ignore_next_write'
      ]_vars

\* C25 (as claimed): an I/O error while a key is written to the PTY, the
\* writer is flushed or the PTY is resized does not end the loop: no step
\* taken at the poll for input makes run_app return an error.
C25_IoErrorNotPropagated ==
    [][ pc = "poll" => pc' # "returned_err" ]_vars

\* C27: a notification dropped by the debouncer leaves the debounce table
\* as it was; a notification that reaches the debouncer 500 ms or more
\* after the instant on record for its (name, kind), or with none on record,
\* passes; and every notification that passes records the current instant,
\* also when it is then resolved as a no-op.
C27_WindowFromLastPass ==
    [][ IsAddChangeStep =>
          LET key  == <<FileName(Head(channel).path), Head(channel).kind>>
              last == debounce_map[key]
          IN
          /\ outcome' = "debounced" =>
                 /\ debounce_map' = debounce_map
                 /\ last # NoTime
                 /\ clock - last < DebounceMs
          /\ (outcome' \notin {"ignored", "noise"}
                 /\ (last = NoTime \/ clock - last >= DebounceMs)) =>
                 outcome' # "debounced"
          /\ outcome' \in {"queued", "unchanged", "unreadable", "remove_noop"}
                 => debounce_map' = [debounce_map EXCEPT ![key] = clock]
      ]_vars

\* three notifications for main.txt have been taken: the first passed at 0,
\* the second was dropped inside the window without refreshing the instant,
\* and the third passed when the window of the first was over
C27_Witness ==
    /\ child_ops = 3
    /\ channel = <<>>
    /\ clock = DebounceMs
    /\ outcome \in {"queued", "unchanged"}
    /\ debounce_map[<<"main.txt", "Modify">>] = DebounceMs

\* C28 (as claimed): whenever the scan has run, the approval queue is empty,
\* the channel is drained and no revert is under way or has failed, the
\* cache holds for every file the content the file has on disk, a missing
\* entry standing for an absent or empty file.
C28_QuiescentConsistency ==
    (/\ pc \notin {"scan", "revert"}
     /\ approval_queue = <<>>
     /\ channel = <<>>
     /\ ~(decision.key = "n" /\ decision.change # NoPending))
    => \A f \in Files : CacheGet(file_cache, f) = DiskContent(disk, f)

\* C29 (as claimed): the startup scan seeds the cache with the contents the
\* files had before the child could write: a file the child has created
\* since it was spawned (the first notification in flight for it is a
\* Create) has no content in the cache when the scan is over.
C29_ScanSeesPreSpawnContent ==
    [][ (pc = "scan" /\ pc' = "drain") =>
          \A f \in Files :
              (\E i \in 1..Len(channel) :
                  /\ channel[i].type = "FileChange"
                  /\ Resolve(channel[i].path) = f
                  /\ channel[i].kind = "Create"
                  /\ \A j \in 1..(i - 1) :
                         ~(/\ channel[j].type = "FileChange"
                           /\ Resolve(channel[j].path) = f))
              => CacheGet(file_cache', f) = ""
      ]_vars

====
